---- MODULE Spec2Model ----
(***************************************************************************)
(* A model of equals.rs: the Markdown / plain scanners, the Document model  *)
(* (reconstruct, evaluate_with) and the line grammar (split_line,           *)
(* CodeLine::reconstruct).                                                  *)
(*                                                                          *)
(* A Rust String is modelled as a sequence of characters.  A character is a *)
(* token: "a" is an ordinary ASCII letter, EAcute is U+00E9, a character     *)
(* whose UTF-8 encoding takes two bytes, Backtick is U+0060 (which cannot   *)
(* be written inside a TLA+ string), LF and CR are "\n" and "\r".           *)
(* String::len() counts bytes, chars() counts characters: both are kept.    *)
(***************************************************************************)
EXTENDS Integers, Sequences, FiniteSets, TLC

VARIABLES
    pc,         \* position of the run: "start", "parsed", "evaluating" (inside
                \* the evaluator closure), "evaluated", "done"; "panicked" when
                \* the evaluator panicked, "mismatched" when evaluate_with hit
                \* its expect(...)
    input,      \* main: input_text
    markdown,   \* main: args.markdown (which Parser is chosen)
    doc,        \* main: doc (a Document, as its Vec<Line>)
    calls,      \* number of times the evaluator closure has been invoked
    view,       \* the slice &[CodeBlock] last passed to the evaluator
    updates,    \* the Vec<CodeBlockUpdate> the evaluator returned
    fault,      \* TRUE when a panic ended evaluate_with: its own expect(...)
                \* or a panic of the evaluator
    output,     \* main: output_text
    lgLine,     \* line grammar: the line given to split_line
    lgDetector, \* line grammar: which extract_assignment closure is used
    lgResult,   \* line grammar: the new result given to CodeLine::reconstruct
    lgParsed,   \* line grammar: split_line(lgLine)
    lgRebuilt,  \* line grammar: lgParsed.reconstruct(lgResult)
    lgReparsed, \* line grammar: split_line(lgRebuilt)
    lang,       \* language pack: the pack main selected
    parsed,     \* language pack: split_line of every view
    script,     \* language pack: what the pack hands to its interpreter
    exit,       \* interpreter: how the child process ended
    stdout,     \* interpreter: what the child process printed
    path,          \* main: args.input (None: the text comes from stdin)
    language,      \* main: args.language
    language_name  \* main: language_name

vars == <<pc, input, markdown, doc, calls, view, updates, fault, output,
          lgLine, lgDetector, lgResult, lgParsed, lgRebuilt, lgReparsed,
          lang, parsed, script, exit, stdout,
          path, language, language_name>>

docVars == <<input, markdown, doc, calls, view, updates, fault, output>>
lgVars == <<lgLine, lgDetector, lgResult, lgParsed, lgRebuilt, lgReparsed>>
evVars == <<lang, parsed, script, exit, stdout>>
selVars == <<path, language, language_name>>

----------------------------------------------------------------------------
(* Bounds of the model *)

\* longest input text given to the scanners, in tokens (a character or a fence)
MaxLen == 5
\* longest input text of a run that goes through evaluate_with, in tokens
MaxDocLen == 3
\* longest update list the evaluator returns
MaxUpdates == 2
\* longest line given to split_line
MaxLineLen == 4
\* longest new result given to CodeLine::reconstruct
MaxResultLen == 2
\* most lines of an input text given to a language pack
MaxViews == 2
\* most lines an interpreter prints
MaxStdoutLines == 2

----------------------------------------------------------------------------
(* Characters and strings *)

Backtick == "BACKTICK"
EAcute == "EACUTE"
LF == "\n"
CR == "\r"

\* characters of the scanned texts
Alphabet == {"a", EAcute, Backtick, LF, CR}
\* characters of the texts that go through evaluate_with
DocAlphabet == {"a", Backtick, LF}
\* characters of the lines given to the line grammar
LineAlphabet == {"a", " ", "#", "="}
\* characters of the results an interpreter prints
ResultAlphabet == {"a", " ", "#"}

\* char::len_utf8
len_utf8(ch) == IF ch = EAcute THEN 2 ELSE 1

\* char::is_whitespace, on the characters of the model
is_whitespace(ch) == ch \in {" ", "\t", LF, CR}

\* str::len: the length in bytes
RECURSIVE len(_)
len(s) == IF s = <<>> THEN 0 ELSE len_utf8(Head(s)) + len(Tail(s))

\* usize::saturating_sub
saturating_sub(a, b) == IF a >= b THEN a - b ELSE 0

\* all sequences over alphabet of at most n elements
StringsUpTo(alphabet, n) == UNION {[1..k -> alphabet] : k \in 0..n}

RECURSIVE Concat(_)
\* concatenation of a sequence of strings (Iterator::collect::<String>)
Concat(ss) == IF ss = <<>> THEN <<>> ELSE Head(ss) \o Concat(Tail(ss))

RECURSIVE join(_, _)
\* [String]::join(sep)
join(ss, sep) ==
    IF ss = <<>> THEN <<>>
    ELSE IF Len(ss) = 1 THEN Head(ss)
    ELSE Head(ss) \o sep \o join(Tail(ss), sep)

\* str::starts_with
starts_with(s, prefix) ==
    /\ Len(s) >= Len(prefix)
    /\ SubSeq(s, 1, Len(prefix)) = prefix

\* str::ends_with
ends_with(s, suffix) ==
    /\ Len(s) >= Len(suffix)
    /\ SubSeq(s, Len(s) - Len(suffix) + 1, Len(s)) = suffix

RECURSIVE trim_start(_)
\* str::trim_start
trim_start(s) ==
    IF s # <<>> /\ is_whitespace(Head(s)) THEN trim_start(Tail(s)) ELSE s

RECURSIVE trim_end(_)
\* str::trim_end
trim_end(s) ==
    IF s # <<>> /\ is_whitespace(s[Len(s)])
    THEN trim_end(SubSeq(s, 1, Len(s) - 1))
    ELSE s

\* str::trim
trim(s) == trim_end(trim_start(s))

\* the 0-based character offsets at which needle occurs in s
Occurrences(s, needle) ==
    {i \in 0..(Len(s) - Len(needle)) : SubSeq(s, i + 1, i + Len(needle)) = needle}

\* str::contains
contains(s, needle) == Occurrences(s, needle) # {}

\* str::find: the first offset (only used when contains(s, needle))
find(s, needle) ==
    CHOOSE i \in Occurrences(s, needle) : \A j \in Occurrences(s, needle) : i <= j

RECURSIVE split_inclusive(_, _)
\* str::split_inclusive(ch): the pieces, each one keeping its terminator
split_inclusive(s, ch) ==
    IF s = <<>> THEN <<>>
    ELSE IF \E i \in 1..Len(s) : s[i] = ch
    THEN LET i == CHOOSE k \in 1..Len(s) :
                      s[k] = ch /\ \A j \in 1..(k - 1) : s[j] # ch
         IN <<SubSeq(s, 1, i)>> \o split_inclusive(SubSeq(s, i + 1, Len(s)), ch)
    ELSE <<s>>

\* core::str::LinesMap: strip one "\n", and then one "\r", from a piece
LinesMap(piece) ==
    IF ~ends_with(piece, <<LF>>) THEN piece
    ELSE LET l == SubSeq(piece, 1, Len(piece) - 1)
         IN IF ends_with(l, <<CR>>) THEN SubSeq(l, 1, Len(l) - 1) ELSE l

\* str::lines
lines(s) ==
    LET pieces == split_inclusive(s, LF)
    IN [i \in 1..Len(pieces) |-> LinesMap(pieces[i])]

----------------------------------------------------------------------------
(* document.rs: Block, Line *)

Text(range, content) == [kind |-> "Text", range |-> range, content |-> content]
Code(range, content) == [kind |-> "Code", range |-> range, content |-> content]
Line(number, blocks) == [number |-> number, blocks |-> blocks]

----------------------------------------------------------------------------
(* parser.rs: PlainParser *)

\* PlainParser::parse: every line of input.lines() is one Code block
PlainParser_parse(text) ==
    LET ls == lines(text)
    IN [i \in 1..Len(ls) |-> Line(i, <<Code(<<0, len(ls[i])>>, ls[i])>>)]

----------------------------------------------------------------------------
(* markdown.rs: MarkdownParser *)

FENCE == <<Backtick, Backtick, Backtick>>

\* the input texts: at most n tokens, a token being one character of the
\* alphabet or a whole fence
Texts(alphabet, n) ==
    {Concat(ts) : ts \in StringsUpTo({<<ch>> : ch \in alphabet} \cup {FENCE}, n)}

\* faulty variant of is_fence: the leading whitespace is not removed
is_fence_no_trim(l) == starts_with(l, FENCE)

\* MarkdownParser::is_fence
is_fence(l) == starts_with(trim_start(l), FENCE)

\* MarkdownParser::parse_fenced_code_line
parse_fenced_code_line(number, l) == Line(number, <<Code(<<0, len(l)>>, l)>>)

\* the locals of parse_inline_code_line before its loop
InlineInit ==
    [blocks |-> <<>>, text_buf |-> <<>>, code_buf |-> <<>>,
     inside_inline |-> FALSE, col |-> 0]

\* faulty variant of InlineStep: the closing backtick is kept with the code
\* content instead of going to the text buffer
InlineStep_backtick_in_code(st, ch) ==
    IF ch = Backtick THEN
        IF st.inside_inline THEN
            LET code_buf == Append(st.code_buf, Backtick)
                start == saturating_sub(st.col, len(code_buf))
                end == st.col
            IN [st EXCEPT !.blocks = Append(@, Code(<<start, end>>, code_buf)),
                          !.code_buf = <<>>,
                          !.inside_inline = FALSE,
                          !.col = @ + 1]
        ELSE
            LET text_buf == Append(st.text_buf, Backtick)
                start == saturating_sub(st.col, len(text_buf))
                end == st.col
            IN [st EXCEPT !.blocks = Append(@, Text(<<start, end>>, text_buf)),
                          !.text_buf = <<>>,
                          !.inside_inline = TRUE,
                          !.col = @ + 1]
    ELSE IF st.inside_inline THEN
        [st EXCEPT !.code_buf = Append(@, ch), !.col = @ + 1]
    ELSE
        [st EXCEPT !.text_buf = Append(@, ch), !.col = @ + 1]

\* one iteration of the loop `for ch in line.chars()` of parse_inline_code_line
InlineStep(st, ch) ==
    IF ch = Backtick THEN
        IF st.inside_inline THEN
            \* End of inline code
            LET start == saturating_sub(st.col, len(st.code_buf))
                end == st.col
            IN [st EXCEPT !.blocks = Append(@, Code(<<start, end>>, st.code_buf)),
                          !.code_buf = <<>>,
                          !.inside_inline = FALSE,
                          !.text_buf = Append(@, Backtick),
                          !.col = @ + 1]
        ELSE
            \* Start of inline code
            LET text_buf == Append(st.text_buf, Backtick)
                start == saturating_sub(st.col, len(text_buf))
                end == st.col
            IN IF text_buf # <<>>
               THEN [st EXCEPT !.blocks = Append(@, Text(<<start, end>>, text_buf)),
                               !.text_buf = <<>>,
                               !.inside_inline = TRUE,
                               !.col = @ + 1]
               ELSE [st EXCEPT !.text_buf = text_buf,
                               !.inside_inline = TRUE,
                               !.col = @ + 1]
    ELSE IF st.inside_inline THEN
        [st EXCEPT !.code_buf = Append(@, ch), !.col = @ + 1]
    ELSE
        [st EXCEPT !.text_buf = Append(@, ch), !.col = @ + 1]

RECURSIVE InlineLoop(_, _)
\* the whole loop of parse_inline_code_line over the characters of l
InlineLoop(st, l) ==
    IF l = <<>> THEN st ELSE InlineLoop(InlineStep(st, Head(l)), Tail(l))

\* faulty variant of flush_inline_buffers: on unclosed inline code the blocks
\* already pushed are kept and only the dangling buffers become text
flush_inline_buffers_keep(blocks, text_buf, code_buf, inside_inline, col, number) ==
    IF inside_inline THEN
        LET rest == text_buf \o code_buf
        IN Line(number, Append(blocks,
                    Text(<<saturating_sub(col, len(rest)), col>>, rest)))
    ELSE IF text_buf # <<>> THEN
        Line(number, Append(blocks,
                 Text(<<saturating_sub(col, len(text_buf)), col>>, text_buf)))
    ELSE Line(number, blocks)

\* faulty variant of flush_inline_buffers: the trailing text buffer is pushed
\* even when it is empty
flush_inline_buffers_always_text(blocks, text_buf, code_buf, inside_inline, col, number) ==
    IF inside_inline THEN
        LET full_text ==
                Concat([i \in 1..Len(blocks) |-> blocks[i].content])
                    \o text_buf \o code_buf
        IN Line(number, <<Text(<<0, len(full_text)>>, full_text)>>)
    ELSE
        LET start == saturating_sub(col, len(text_buf))
            end == col
        IN Line(number, Append(blocks, Text(<<start, end>>, text_buf)))

\* MarkdownParser::flush_inline_buffers
flush_inline_buffers(blocks, text_buf, code_buf, inside_inline, col, number) ==
    IF inside_inline THEN
        \* Unclosed inline code: merge all into text
        LET full_text ==
                Concat([i \in 1..Len(blocks) |-> blocks[i].content])
                    \o text_buf \o code_buf
        IN Line(number, <<Text(<<0, len(full_text)>>, full_text)>>)
    ELSE IF text_buf # <<>> THEN
        LET start == saturating_sub(col, len(text_buf))
            end == col
        IN Line(number, Append(blocks, Text(<<start, end>>, text_buf)))
    ELSE Line(number, blocks)

\* MarkdownParser::parse_inline_code_line
parse_inline_code_line(number, l) ==
    LET st == InlineLoop(InlineInit, l)
    IN flush_inline_buffers(st.blocks, st.text_buf, st.code_buf,
                            st.inside_inline, st.col, number)

\* faulty variant of parse_line: a fence line sets the flag instead of
\* toggling it, so a block is never closed
parse_line_never_closes(number, l, in_code_block) ==
    IF is_fence(l) THEN
        [line |-> Line(number, <<Text(<<0, len(l)>>, l)>>),
         in_code_block |-> TRUE]
    ELSE IF in_code_block THEN
        [line |-> parse_fenced_code_line(number, l),
         in_code_block |-> in_code_block]
    ELSE
        [line |-> parse_inline_code_line(number, l),
         in_code_block |-> in_code_block]

\* MarkdownParser::parse_line: the Line, and in_code_block after the call
parse_line(number, l, in_code_block) ==
    IF is_fence(l) THEN
        [line |-> Line(number, <<Text(<<0, len(l)>>, l)>>),
         in_code_block |-> ~in_code_block]
    ELSE IF in_code_block THEN
        [line |-> parse_fenced_code_line(number, l),
         in_code_block |-> in_code_block]
    ELSE
        [line |-> parse_inline_code_line(number, l),
         in_code_block |-> in_code_block]

\* the piece of split_inclusive('\n') without its terminator
\* (`if line.ends_with('\n') { line.pop(); }`)
PopNewline(raw_line) ==
    IF ends_with(raw_line, <<LF>>)
    THEN SubSeq(raw_line, 1, Len(raw_line) - 1)
    ELSE raw_line

RECURSIVE MarkdownLoop(_, _, _, _)
\* the loop of MarkdownParser::parse from piece i on, with the lines pushed so
\* far and the fence flag
MarkdownLoop(pieces, i, acc, in_code_block) ==
    IF i > Len(pieces) THEN acc
    ELSE LET r == parse_line(i, PopNewline(pieces[i]), in_code_block)
         IN MarkdownLoop(pieces, i + 1, Append(acc, r.line), r.in_code_block)

\* MarkdownParser::parse
MarkdownParser_parse(text) ==
    MarkdownLoop(split_inclusive(text, LF), 1, <<>>, FALSE)

----------------------------------------------------------------------------
(* document.rs: Document::reconstruct *)

RECURSIVE sort_by_key(_)
\* slice::sort_by_key on range.start: a stable sort.  The sorted prefix
\* receives the last block after every block whose key is not larger.
sort_by_key(blocks) ==
    IF blocks = <<>> THEN <<>>
    ELSE LET n == Len(blocks)
             last == blocks[n]
             sorted == sort_by_key(SubSeq(blocks, 1, n - 1))
             k == Cardinality({i \in 1..(n - 1) : sorted[i].range[1] <= last.range[1]})
         IN SubSeq(sorted, 1, k) \o <<last>> \o SubSeq(sorted, k + 1, n - 1)

\* the text of one line in Document::reconstruct
reconstruct_line(l) ==
    LET blocks == sort_by_key(l.blocks)
    IN Concat([i \in 1..Len(blocks) |-> blocks[i].content])

\* Document::reconstruct
Document_reconstruct(d) ==
    join([i \in 1..Len(d) |-> reconstruct_line(d[i])], <<LF>>)

----------------------------------------------------------------------------
(* document.rs: BlockId, CodeBlock, CodeBlockUpdate, Document::evaluate_with *)

\* faulty variant of BlockId::new: ids start at 1
BlockId_new_one_based(index) == index + 1

\* BlockId::new
BlockId_new(index) == index

CodeBlock(id, content) == [id |-> id, content |-> content]
CodeBlockUpdate(id, content) == [id |-> id, content |-> content]

RECURSIVE ExtractBlocks_skip_empty(_, _, _)
\* faulty variant of the first traversal: a Code block whose content is
\* empty is passed over, although the second traversal still meets it
ExtractBlocks_skip_empty(blocks, i, extracted) ==
    IF i > Len(blocks) THEN [blocks |-> blocks, extracted |-> extracted]
    ELSE IF blocks[i].kind = "Code" /\ blocks[i].content # <<>> THEN
        LET id == BlockId_new(Len(extracted))
        IN ExtractBlocks_skip_empty([blocks EXCEPT ![i].content = <<>>], i + 1,
                         Append(extracted, CodeBlock(id, blocks[i].content)))
    ELSE ExtractBlocks_skip_empty(blocks, i + 1, extracted)

RECURSIVE ExtractBlocks(_, _, _)
\* the inner loop of the first traversal, from block i of one line on:
\* every Code block is pushed to `extracted` and its String is taken
\* (std::mem::take leaves it empty)
ExtractBlocks(blocks, i, extracted) ==
    IF i > Len(blocks) THEN [blocks |-> blocks, extracted |-> extracted]
    ELSE IF blocks[i].kind = "Code" THEN
        LET id == BlockId_new(Len(extracted))
        IN ExtractBlocks([blocks EXCEPT ![i].content = <<>>], i + 1,
                         Append(extracted, CodeBlock(id, blocks[i].content)))
    ELSE ExtractBlocks(blocks, i + 1, extracted)

RECURSIVE ExtractLines(_, _, _)
\* the first traversal of evaluate_with, from line i on
ExtractLines(d, i, extracted) ==
    IF i > Len(d) THEN [doc |-> d, extracted |-> extracted]
    ELSE LET r == ExtractBlocks(d[i].blocks, 1, extracted)
         IN ExtractLines([d EXCEPT ![i].blocks = r.blocks], i + 1, r.extracted)

\* faulty variant of the early return: the evaluator is always invoked
skip_evaluator_never(extracted) == FALSE

\* `if extracted.is_empty() { return; }`
skip_evaluator(extracted) == extracted = <<>>

RECURSIVE build_updates_map_first_wins(_, _)
\* faulty variant of the insert loop: an id already in the map keeps the
\* content inserted first
build_updates_map_first_wins(ups, map) ==
    IF ups = <<>> THEN map
    ELSE LET u == Head(ups)
         IN build_updates_map_first_wins(Tail(ups),
                [k \in (DOMAIN map) \cup {u.id} |->
                    IF k \in DOMAIN map THEN map[k] ELSE u.content])

RECURSIVE build_updates_map(_, _)
\* the loop `updates_map.insert(update.id, update.content)` over the updates
build_updates_map(ups, map) ==
    IF ups = <<>> THEN map
    ELSE LET u == Head(ups)
         IN build_updates_map(Tail(ups),
                [k \in (DOMAIN map) \cup {u.id} |->
                    IF k = u.id THEN u.content ELSE map[k]])

\* faulty variant of the merge: the lookup is never consulted
merged_content_ignore(id, original, updates_map) == original

\* faulty variant of the merge: a block without an update is not restored and
\* keeps the empty String std::mem::take left in it
merged_content_drop(id, original, updates_map) ==
    IF id \in DOMAIN updates_map THEN updates_map[id] ELSE <<>>

\* the content a Code block receives in the second traversal
merged_content(id, original, updates_map) ==
    IF id \in DOMAIN updates_map THEN updates_map[id] ELSE original

\* faulty variant of the assignment: the range follows the new content
assign_code_resized(block, content) ==
    Code(<<block.range[1], block.range[1] + len(content)>>, content)

\* `*code = ...`: only the String of the block is assigned
assign_code(block, content) == [block EXCEPT !.content = content]

\* HashMap::remove
map_remove(map, id) == [k \in (DOMAIN map) \ {id} |-> map[k]]

RECURSIVE MergeBlocks(_, _, _, _, _)
\* the inner loop of the second traversal, from block i of one line on; `it`
\* is the number of items extracted_iter has yielded.  A Code block met when
\* the iterator is exhausted is the expect(...) panic.
MergeBlocks(blocks, i, extracted, it, updates_map) ==
    IF i > Len(blocks)
    THEN [blocks |-> blocks, it |-> it, updates_map |-> updates_map, fault |-> FALSE]
    ELSE IF blocks[i].kind = "Code" THEN
        IF it >= Len(extracted)
        THEN [blocks |-> blocks, it |-> it, updates_map |-> updates_map, fault |-> TRUE]
        ELSE LET e == extracted[it + 1]
                 content == merged_content(e.id, e.content, updates_map)
             IN MergeBlocks([blocks EXCEPT ![i] = assign_code(@, content)], i + 1,
                            extracted, it + 1, map_remove(updates_map, e.id))
    ELSE MergeBlocks(blocks, i + 1, extracted, it, updates_map)

RECURSIVE MergeLines(_, _, _, _, _)
\* the second traversal of evaluate_with, from line i on
MergeLines(d, i, extracted, it, updates_map) ==
    IF i > Len(d) THEN [doc |-> d, it |-> it, fault |-> FALSE]
    ELSE LET r == MergeBlocks(d[i].blocks, 1, extracted, it, updates_map)
             merged == [d EXCEPT ![i].blocks = r.blocks]
         IN IF r.fault THEN [doc |-> merged, it |-> r.it, fault |-> TRUE]
            ELSE MergeLines(merged, i + 1, extracted, r.it, r.updates_map)

\* the update lists an evaluator may return for a view of n blocks: any ids
\* (one of them, n, addresses no block), in any order, repeated or not
UpdateContents == {<<"x">>, <<"y", "y">>}
UpdateLists(n) ==
    StringsUpTo({CodeBlockUpdate(id, c) : id \in 0..n, c \in UpdateContents},
                MaxUpdates)

\* evaluate_with once the evaluator has returned ups: the updates map and
\* the second traversal, over the document d whose Code strings were taken
\* out as ex; `it` is the number of Code spans the traversal met
MergeResult(d, ex, ups) == MergeLines(d, 1, ex, 0, build_updates_map(ups, <<>>))

\* Document::evaluate_with, `ups` being what the evaluator returns when it is
\* called: the document, the view and the fault flag after the call
evaluate_with(d, ups) ==
    LET ex == ExtractLines(d, 1, <<>>)
    IN IF skip_evaluator(ex.extracted)
       THEN [doc |-> ex.doc, called |-> FALSE, view |-> <<>>,
             updates |-> <<>>, fault |-> FALSE]
       ELSE LET m == MergeResult(ex.doc, ex.extracted, ups)
            IN [doc |-> m.doc, called |-> TRUE, view |-> ex.extracted,
                updates |-> ups, fault |-> m.fault]

----------------------------------------------------------------------------
(* lang/python.rs, lang/numbat.rs: the marker constants *)

MARKER == <<"#", "=">>
COMMENT == <<"#">>

----------------------------------------------------------------------------
(* lang/mod.rs: CodeLine, CodeLine::reconstruct, split_line *)

\* Option<&str>
None == [some |-> FALSE, val |-> <<>>]
Some(s) == [some |-> TRUE, val |-> s]

\* Option::map(|s| s.trim())
map_trim(opt) == IF opt.some THEN Some(trim(opt.val)) ELSE None

\* the variants of CodeLine (a field a variant does not have is left empty)
CodeLine_Code(code) ==
    [variant |-> "Code", var |-> <<>>, code |-> code, marker |-> <<>>,
     result |-> None, comment |-> None]
CodeLine_Eval(code, marker, result, comment) ==
    [variant |-> "Eval", var |-> <<>>, code |-> code, marker |-> marker,
     result |-> result, comment |-> comment]
CodeLine_EvalAssignment(var, code, marker, result, comment) ==
    [variant |-> "EvalAssignment", var |-> var, code |-> code, marker |-> marker,
     result |-> result, comment |-> comment]

\* faulty variant of CodeLine::reconstruct: the prior result is kept in front
\* of the new one
CodeLine_reconstruct_keep_prior(self, result) ==
    IF self.variant = "Code" THEN self.code
    ELSE LET prior == IF self.result.some THEN self.result.val \o <<" ">>
                      ELSE <<>>
             out == self.code \o <<" ">> \o self.marker \o <<" ">>
                        \o prior \o result
         IN IF self.comment.some
            THEN out \o <<" ">> \o trim(self.comment.val)
            ELSE out

\* CodeLine::reconstruct
CodeLine_reconstruct(self, result) ==
    IF self.variant = "Code" THEN self.code
    ELSE LET out == self.code \o <<" ">> \o self.marker \o <<" ">> \o result
         IN IF self.comment.some
            THEN out \o <<" ">> \o trim(self.comment.val)
            ELSE out

\* python.rs: is_assignment
is_assignment(code) ==
    /\ contains(code, <<"=">>)
    /\ ~contains(code, <<"=", "=">>)
    /\ ~contains(code, <<"!", "=">>)

\* python.rs: extract_assigned_var
python_extract_assigned_var(code) ==
    IF ~is_assignment(code) THEN None
    ELSE LET first == trim(SubSeq(code, 1, find(code, <<"=">>)))
         IN IF first # <<>> THEN Some(first) ELSE None

\* numbat.rs: extract_assigned_var
numbat_extract_assigned_var(code) ==
    LET trimmed == trim(code)
        stripped == IF starts_with(trimmed, <<"l", "e", "t", " ">>)
                    THEN Some(SubSeq(trimmed, 5, Len(trimmed)))
                    ELSE None
        rest == trim_start(stripped.val)
    IN IF ~stripped.some THEN None
       ELSE IF ~contains(rest, <<"=">>) THEN None
       ELSE LET lhs == trim(SubSeq(rest, 1, find(rest, <<"=">>)))
                var == IF contains(lhs, <<":">>)
                       THEN trim(SubSeq(lhs, 1, find(lhs, <<":">>)))
                       ELSE lhs
            IN IF lhs = <<>> THEN None
               ELSE IF var = <<>> THEN None
               ELSE Some(var)

\* the extract_assignment closures of the two language packs
Detectors == {"python", "numbat"}
extract_assignment(detector, code) ==
    IF detector = "python" THEN python_extract_assigned_var(code)
    ELSE numbat_extract_assigned_var(code)

\* faulty variant of split_line: the prior result is not trimmed
split_line_untrimmed_result(text, marker, comment, detector) ==
    LET trimmed == trim(text)
    IN IF contains(trimmed, marker) THEN
           LET marker_pos == find(trimmed, marker)
               before_marker == SubSeq(trimmed, 1, marker_pos)
               after_marker ==
                   SubSeq(trimmed, marker_pos + Len(marker) + 1, Len(trimmed))
               has_comment == contains(after_marker, comment)
               cpos == find(after_marker, comment)
               result_part ==
                   IF has_comment THEN SubSeq(after_marker, 1, cpos)
                   ELSE after_marker
               comment_part ==
                   IF has_comment
                   THEN Some(SubSeq(after_marker, cpos + 1, Len(after_marker)))
                   ELSE None
               result == IF result_part = <<>> THEN None ELSE Some(result_part)
               var == extract_assignment(detector, trim(before_marker))
           IN IF var.some
              THEN CodeLine_EvalAssignment(var.val, trim(before_marker), marker,
                                           result, map_trim(comment_part))
              ELSE CodeLine_Eval(trim(before_marker), marker, result,
                                 map_trim(comment_part))
       ELSE CodeLine_Code(trimmed)

\* split_line
split_line(text, marker, comment, detector) ==
    LET trimmed == trim(text)
    IN IF contains(trimmed, marker) THEN
           LET marker_pos == find(trimmed, marker)
               before_marker == SubSeq(trimmed, 1, marker_pos)
               after_marker ==
                   SubSeq(trimmed, marker_pos + Len(marker) + 1, Len(trimmed))
               has_comment == contains(after_marker, comment)
               cpos == find(after_marker, comment)
               result_part ==
                   IF has_comment THEN trim(SubSeq(after_marker, 1, cpos))
                   ELSE trim(after_marker)
               comment_part ==
                   IF has_comment
                   THEN Some(SubSeq(after_marker, cpos + 1, Len(after_marker)))
                   ELSE None
               result == IF result_part = <<>> THEN None ELSE Some(result_part)
               var == extract_assignment(detector, trim(before_marker))
           IN IF var.some
              THEN CodeLine_EvalAssignment(var.val, trim(before_marker), marker,
                                           result, map_trim(comment_part))
              ELSE CodeLine_Eval(trim(before_marker), marker, result,
                                 map_trim(comment_part))
       ELSE CodeLine_Code(trimmed)

----------------------------------------------------------------------------
(* str and usize helpers the language packs use *)

QUOTE == "\""
BACKSLASH == "\\"

\* the decimal digits, in order
Digits == <<"0", "1", "2", "3", "4", "5", "6", "7", "8", "9">>

RECURSIVE to_string(_)
\* usize::to_string (the `{}` of format! on an index)
to_string(n) ==
    IF n < 10 THEN <<Digits[n + 1]>>
    ELSE to_string(n \div 10) \o <<Digits[(n % 10) + 1]>>

\* the value of a decimal digit
digit_value(ch) == (CHOOSE k \in 1..10 : Digits[k] = ch) - 1

RECURSIVE decimal_value(_)
decimal_value(s) ==
    IF s = <<>> THEN 0
    ELSE decimal_value(SubSeq(s, 1, Len(s) - 1)) * 10 + digit_value(s[Len(s)])

\* str::parse::<usize>: an optional "+" and one or more decimal digits
parse_usize(s) ==
    LET ds == IF s # <<>> /\ Head(s) = "+" THEN Tail(s) ELSE s
    IN IF ds # <<>> /\ \A k \in 1..Len(ds) : \E d \in 1..10 : Digits[d] = ds[k]
       THEN [some |-> TRUE, val |-> decimal_value(ds)]
       ELSE [some |-> FALSE, val |-> 0]

\* str::strip_prefix
strip_prefix(s, prefix) ==
    IF starts_with(s, prefix)
    THEN Some(SubSeq(s, Len(prefix) + 1, Len(s)))
    ELSE None

RECURSIVE split_whitespace(_)
\* str::split_whitespace: the non-empty words between runs of whitespace
split_whitespace(s) ==
    LET t == trim_start(s)
    IN IF t = <<>> THEN <<>>
       ELSE IF \E i \in 1..Len(t) : is_whitespace(t[i])
       THEN LET i == CHOOSE k \in 1..Len(t) :
                         is_whitespace(t[k])
                         /\ \A j \in 1..(k - 1) : ~is_whitespace(t[j])
            IN <<SubSeq(t, 1, i - 1)>>
                   \o split_whitespace(SubSeq(t, i + 1, Len(t)))
       ELSE <<t>>

\* str::splitn(2, ch): the text before the first ch and the text after it,
\* or the whole text alone
splitn2(s, ch) ==
    IF contains(s, <<ch>>)
    THEN <<SubSeq(s, 1, find(s, <<ch>>)),
           SubSeq(s, find(s, <<ch>>) + 2, Len(s))>>
    ELSE <<s>>

RECURSIVE replace_char(_, _, _)
\* str::replace(ch, to)
replace_char(s, ch, to) ==
    IF s = <<>> THEN <<>>
    ELSE (IF Head(s) = ch THEN to ELSE <<Head(s)>>)
             \o replace_char(Tail(s), ch, to)

----------------------------------------------------------------------------
(* lang/python.rs, lang/numbat.rs: the scripts *)

\* the prefix of a result line: "##RESULT:"
RESULT_PREFIX == <<"#", "#", "R", "E", "S", "U", "L", "T", ":">>

\* the literal parts of the format! strings of the two packs
PythonPrintOpen ==
    <<"p", "r", "i", "n", "t", "(", "'", "#", "#", "R", "E", "S", "U", "L", "T", ":">>
NumbatPrintOpen ==
    <<"p", "r", "i", "n", "t", "(", QUOTE, "#", "#", "R", "E", "S", "U", "L", "T", ":">>

\* faulty variant of the closure: an assignment is printed before it is run
python_statement_print_first(i, line) ==
    IF line.variant = "Code" THEN line.code
    ELSE IF line.variant = "Eval" THEN
        PythonPrintOpen \o to_string(i) \o <<"'", ",", " ">>
            \o line.code \o <<")">>
    ELSE
        PythonPrintOpen \o to_string(i) \o <<"'", ",", " ">> \o line.var
            \o <<")">> \o <<LF>> \o line.code

\* build_python_script: the closure of `.map(|(i, line)| ...)`
python_statement(i, line) ==
    IF line.variant = "Code" THEN line.code
    ELSE IF line.variant = "Eval" THEN
        PythonPrintOpen \o to_string(i) \o <<"'", ",", " ">>
            \o line.code \o <<")">>
    ELSE
        line.code \o <<LF>> \o PythonPrintOpen \o to_string(i)
            \o <<"'", ",", " ">> \o line.var \o <<")">>

\* build_python_script
build_python_script(code_lines) ==
    join([i \in 1..Len(code_lines) |-> python_statement(i - 1, code_lines[i])],
         <<LF>>)

\* numbat.rs: escape_quotes
escape_quotes(expr) == replace_char(expr, QUOTE, <<BACKSLASH, QUOTE>>)

\* numbat.rs: render_print
render_print(idx, expr) ==
    NumbatPrintOpen \o to_string(idx) \o <<" ", "{">> \o escape_quotes(expr)
        \o <<"}", QUOTE, ")">>

\* build_numbat_expressions: what one iteration of the loop pushes
numbat_pushed(idx, line) ==
    IF line.variant = "Code" THEN
        IF line.code # <<>> THEN <<line.code>> ELSE <<>>
    ELSE IF line.variant = "Eval" THEN
        IF line.code # <<>> THEN <<render_print(idx, line.code)>> ELSE <<>>
    ELSE
        (IF line.code # <<>> THEN <<line.code>> ELSE <<>>)
            \o <<render_print(idx, line.var)>>

\* build_numbat_expressions
build_numbat_expressions(ls) ==
    Concat([i \in 1..Len(ls) |-> numbat_pushed(i - 1, ls[i])])


----------------------------------------------------------------------------
(* lang/python.rs, lang/numbat.rs: evaluate *)

\* the language packs get_language_spec knows
Packs == {"python", "numbat"}

\* how a child process can end: it could not be started, it ended with a
\* non-zero status or by a signal, it ended with status 0
Exits == {"spawn_failed", "nonzero", "ok"}

\* evaluate_in_place: the split_line of every view
split_views(pack, contents) ==
    [i \in 1..Len(contents) |-> split_line(contents[i], MARKER, COMMENT, pack)]

\* numbat.rs: `parsed.iter().any(|line| matches!(line, Eval | EvalAssignment))`
has_eval(code_lines) ==
    \E i \in 1..Len(code_lines) :
        code_lines[i].variant \in {"Eval", "EvalAssignment"}

\* what the pack builds for its interpreter
build_script(pack, code_lines) ==
    IF pack = "python" THEN build_python_script(code_lines)
    ELSE build_numbat_expressions(code_lines)

\* whether evaluate_in_place gets as far as starting the interpreter, s
\* being the script it built
spawns(pack, code_lines, s) ==
    IF pack = "python" THEN TRUE
    ELSE has_eval(code_lines) /\ s # <<>>

\* run_python: stdout, or the panic of expect("failed to run python"); the
\* exit status is not looked at
run_python(py_script, ex, out) ==
    IF ex = "spawn_failed" THEN [fault |-> TRUE, output |-> <<>>]
    ELSE [fault |-> FALSE, output |-> out]

\* run_numbat
run_numbat(expressions, ex, out) ==
    IF expressions = <<>> THEN None
    ELSE IF ex = "spawn_failed" THEN None
    ELSE IF ex # "ok" THEN None
    ELSE Some(out)

\* `if let Some(s) = input.get_mut(idx) { *s = lines[idx].reconstruct(&value) }`
set_result(working, code_lines, idx, value) ==
    IF ~idx.some THEN working
    ELSE IF idx.val >= Len(working) THEN working
    ELSE [working EXCEPT
             ![idx.val + 1] = CodeLine_reconstruct(code_lines[idx.val + 1], value)]

\* python.rs: `rest.split_whitespace()`, the index and the value
python_result_parts(working, code_lines, parts) ==
    IF parts = <<>> THEN working
    ELSE set_result(working, code_lines, parse_usize(Head(parts)),
                    join(Tail(parts), <<" ">>))

\* python.rs: the body of `for line in output.lines()`
python_result_line(working, code_lines, line) ==
    IF ~starts_with(line, RESULT_PREFIX) THEN working
    ELSE python_result_parts(working, code_lines,
             split_whitespace(strip_prefix(line, RESULT_PREFIX).val))

\* numbat.rs: `rest.trim_start().splitn(2, ' ')`, the index and
\* the value
splitn_result_parts(working, code_lines, parts) ==
    set_result(working, code_lines, parse_usize(parts[1]),
               IF Len(parts) > 1 THEN trim(parts[2]) ELSE <<>>)

\* numbat.rs: the body of `for line in output.lines()`
numbat_result_line(working, code_lines, line) ==
    IF ~starts_with(line, RESULT_PREFIX) THEN working
    ELSE splitn_result_parts(working, code_lines,
             splitn2(trim_start(strip_prefix(line, RESULT_PREFIX).val), " "))

\* one iteration of the loop `for line in output.lines()` of a pack
result_line(pack, working, code_lines, line) ==
    IF pack = "python" THEN python_result_line(working, code_lines, line)
    ELSE numbat_result_line(working, code_lines, line)

RECURSIVE result_lines(_, _, _, _)
\* the loop `for line in output.lines()` of a pack
result_lines(pack, working, code_lines, out_lines) ==
    IF out_lines = <<>> THEN working
    ELSE result_lines(pack,
                      result_line(pack, working, code_lines, Head(out_lines)),
                      code_lines, Tail(out_lines))

\* PythonLang::evaluate_in_place from run_python on: the strings after the
\* call, or the panic
python_evaluate_in_place(contents, code_lines, run) ==
    IF run.fault THEN [working |-> contents, fault |-> TRUE]
    ELSE [working |-> result_lines("python", contents, code_lines,
                                   lines(run.output)),
          fault |-> FALSE]

\* NumbatLang::evaluate_in_place from `if !has_eval` on
numbat_evaluate_in_place(contents, code_lines, expressions, run) ==
    IF ~has_eval(code_lines) THEN [working |-> contents, fault |-> FALSE]
    ELSE IF expressions = <<>> THEN [working |-> contents, fault |-> FALSE]
    ELSE IF ~run.some THEN [working |-> contents, fault |-> FALSE]
    ELSE [working |-> result_lines("numbat", contents, code_lines,
                                   lines(run.val)),
          fault |-> FALSE]

\* evaluate_in_place of a pack once its script s is built
evaluate_in_place(pack, contents, code_lines, s, ex, out) ==
    IF pack = "python"
    THEN python_evaluate_in_place(contents, code_lines, run_python(s, ex, out))
    ELSE numbat_evaluate_in_place(contents, code_lines, s, run_numbat(s, ex, out))

RECURSIVE changed_blocks(_, _)
\* evaluate: `blocks.iter().zip(working).filter_map(...)`, an update for
\* every block whose string differs after evaluate_in_place
changed_blocks(blocks, working) ==
    IF blocks = <<>> THEN <<>>
    ELSE (IF Head(blocks).content = Head(working) THEN <<>>
          ELSE <<CodeBlockUpdate(Head(blocks).id, Head(working))>>)
             \o changed_blocks(Tail(blocks), Tail(working))

\* evaluate: the update list built from what evaluate_in_place left
updates_of(blocks, r) ==
    IF r.fault THEN [updates |-> <<>>, fault |-> TRUE]
    ELSE [updates |-> changed_blocks(blocks, r.working), fault |-> FALSE]

\* the strings evaluate works on
contents_of(blocks) == [i \in 1..Len(blocks) |-> blocks[i].content]

\* Language::evaluate of the two packs: the update list, or the panic
evaluate(pack, blocks, code_lines, s, ex, out) ==
    IF blocks = <<>> THEN [updates |-> <<>>, fault |-> FALSE]
    ELSE updates_of(blocks,
             evaluate_in_place(pack, contents_of(blocks), code_lines, s, ex, out))

----------------------------------------------------------------------------
(* main.rs: the run  parse -> evaluate_with -> reconstruct *)

\* the line grammar is idle during a run of main
LgIdle ==
    /\ lgLine = <<>>
    /\ lgDetector = "python"
    /\ lgResult = <<>>
    /\ lgParsed = CodeLine_Code(<<>>)
    /\ lgRebuilt = <<>>
    /\ lgReparsed = CodeLine_Code(<<>>)

\* no language pack has run
EvIdle ==
    /\ lang = "none"
    /\ parsed = <<>>
    /\ script = <<>>
    /\ exit = "none"
    /\ stdout = <<>>

\* the language has been selected: its selection is not part of the run
SelIdle ==
    /\ path = None
    /\ language = None
    /\ language_name = <<>>

\* the state once the arguments and the input text have been read
InitRun(texts) ==
    /\ pc = "start"
    /\ input \in texts
    /\ markdown \in BOOLEAN
    /\ doc = <<>>
    /\ calls = 0
    /\ view = <<>>
    /\ updates = <<>>
    /\ fault = FALSE
    /\ output = <<>>
    /\ LgIdle
    /\ EvIdle
    /\ SelIdle

\* main: `parser.parse(&input_text)` with the parser args.markdown selects
parse(md, text) ==
    IF md THEN MarkdownParser_parse(text) ELSE PlainParser_parse(text)

Parse ==
    /\ pc = "start"
    /\ doc' = parse(markdown, input)
    /\ pc' = "parsed"
    /\ UNCHANGED <<input, markdown, calls, view, updates, fault, output, lgVars, evVars, selVars>>

\* the view evaluate_with hands to the evaluator
extracted_view(d) == ExtractLines(d, 1, <<>>).extracted

\* main: `doc.evaluate_with(|blocks| lang.evaluate(blocks))` up to the call
\* of the evaluator: the Code strings are taken out of the document; without
\* a Code block evaluate_with returns here
EvaluateWith ==
    /\ pc = "parsed"
    /\ doc' = ExtractLines(doc, 1, <<>>).doc
    /\ IF skip_evaluator(extracted_view(doc))
       THEN /\ pc' = "evaluated"
            /\ UNCHANGED <<calls, view>>
       ELSE /\ view' = extracted_view(doc)
            /\ calls' = calls + 1
            /\ pc' = "evaluating"
    /\ UNCHANGED <<input, markdown, updates, fault, output, lgVars, evVars, selVars>>

\* the evaluator returns its updates and evaluate_with merges them
EvaluatorReturns ==
    /\ pc = "evaluating"
    /\ \E ups \in UpdateLists(Len(view)) :
          /\ updates' = ups
          /\ doc' = MergeResult(doc, view, ups).doc
          /\ fault' = MergeResult(doc, view, ups).fault
          /\ pc' = IF fault' THEN "mismatched" ELSE "evaluated"
    /\ UNCHANGED <<input, markdown, calls, view, output, lgVars, evVars, selVars>>

\* the evaluator panics (PythonLang: python.rs:128 when python3 cannot be
\* started): evaluate_with never merges, the Code strings stay taken out
EvaluatorPanics ==
    /\ pc = "evaluating"
    /\ fault' = TRUE
    /\ pc' = "panicked"
    /\ UNCHANGED <<input, markdown, doc, calls, view, updates, output, lgVars,
                   evVars, selVars>>

\* main: `doc.reconstruct()`, also called right after parse by the tests
Reconstruct ==
    /\ pc \in {"parsed", "evaluated"}
    /\ output' = Document_reconstruct(doc)
    /\ pc' = "done"
    /\ UNCHANGED <<input, markdown, doc, calls, view, updates, fault, lgVars, evVars, selVars>>

\* the whole pipeline, on short texts
Init == InitRun(Texts(DocAlphabet, MaxDocLen))
Next ==
    Parse \/ EvaluateWith \/ EvaluatorReturns \/ EvaluatorPanics \/ Reconstruct
Spec == Init /\ [][Next]_vars

\* the scanners and reconstruct alone (no evaluation), on longer texts
InitScan == InitRun(Texts(Alphabet, MaxLen))
NextScan == Parse \/ Reconstruct
SpecScan == InitScan /\ [][NextScan]_vars

\* the whole pipeline on Markdown texts long enough for two inline code
\* spans on a line
InitWrite == InitRun(Texts(DocAlphabet, MaxLen)) /\ markdown = TRUE
NextWrite ==
    Parse \/ EvaluateWith \/ EvaluatorReturns \/ EvaluatorPanics \/ Reconstruct
SpecWrite == InitWrite /\ [][NextWrite]_vars

----------------------------------------------------------------------------
(* main.rs with a language pack as the evaluator: the plain parser, the     *)
(* pack's script, the interpreter's run, the merge, reconstruct             *)

\* the lines of the input texts: unmarked with leading whitespace, marked,
\* marked without expression, an assignment, empty
ViewLines ==
    {<<" ", "a">>,
     <<"a", "#", "=">>,
     <<"#", "=">>,
     <<"l", "e", "t", " ", "a", "=", "a", "#", "=">>,
     <<>>}

LangTexts == {join(ls, <<LF>>) : ls \in StringsUpTo(ViewLines, MaxViews)}

\* the lines an interpreter may print: a result with a value for any index
\* (the last one addresses no view), a result without a value (what python3
\* prints for print('##RESULT:i', )), or text without the result prefix
StdoutLines ==
    {RESULT_PREFIX \o to_string(i) \o <<" ", "a">> : i \in 0..MaxViews}
        \cup {RESULT_PREFIX \o to_string(i) : i \in 0..(MaxViews - 1)}
        \cup {<<"a">>}

Stdouts ==
    {Concat([k \in 1..Len(ls) |-> ls[k] \o <<LF>>]) :
        ls \in StringsUpTo(StdoutLines, MaxStdoutLines)}

InitLang ==
    /\ pc = "start"
    /\ input \in LangTexts
    /\ markdown = FALSE
    /\ doc = <<>>
    /\ calls = 0
    /\ view = <<>>
    /\ updates = <<>>
    /\ fault = FALSE
    /\ output = <<>>
    /\ LgIdle
    /\ SelIdle
    /\ lang \in Packs
    /\ parsed = <<>>
    /\ script = <<>>
    /\ exit = "none"
    /\ stdout = <<>>

\* evaluate_with up to the point where the pack has built its script; when
\* there is no Code block, the whole of evaluate_with
LangBuild ==
    /\ pc = "parsed"
    /\ lang \in Packs
    /\ doc' = ExtractLines(doc, 1, <<>>).doc
    /\ IF skip_evaluator(extracted_view(doc))
       THEN /\ pc' = "evaluated"
            /\ UNCHANGED <<calls, view, parsed, script>>
       ELSE /\ view' = extracted_view(doc)
            /\ parsed' = split_views(lang, contents_of(extracted_view(doc)))
            /\ script' = build_script(lang, parsed')
            /\ calls' = calls + 1
            /\ pc' = "built"
    /\ UNCHANGED <<input, markdown, updates, fault, output, lgVars, lang, exit, stdout, selVars>>

\* the child process: how it ends and what it has printed by then
LangRun ==
    /\ pc = "built"
    /\ spawns(lang, parsed, script)
    /\ \E ex \in Exits, out \in Stdouts :
          /\ exit' = ex
          /\ stdout' = IF ex = "spawn_failed" THEN <<>> ELSE out
    /\ pc' = "exited"
    /\ UNCHANGED <<docVars, lgVars, lang, parsed, script, selVars>>

\* the pack returns without starting its interpreter
LangNoRun ==
    /\ pc = "built"
    /\ ~spawns(lang, parsed, script)
    /\ pc' = "exited"
    /\ UNCHANGED <<docVars, lgVars, evVars, selVars>>

\* the rest of evaluate_with: the pack reads the output and returns its
\* updates (or panics), and the updates are merged
LangFinish ==
    /\ pc = "exited"
    /\ LET ev == evaluate(lang, view, parsed, script, exit, stdout)
       IN IF ev.fault
          THEN /\ fault' = TRUE
               /\ pc' = "panicked"
               /\ UNCHANGED <<doc, updates>>
          ELSE /\ updates' = ev.updates
               /\ doc' = MergeResult(doc, view, updates').doc
               /\ fault' = MergeResult(doc, view, updates').fault
               /\ pc' = IF fault' THEN "mismatched" ELSE "evaluated"
    /\ UNCHANGED <<input, markdown, calls, view, output, lgVars, evVars, selVars>>

NextLang ==
    Parse \/ LangBuild \/ LangRun \/ LangNoRun \/ LangFinish \/ Reconstruct
SpecLang == InitLang /\ [][NextLang]_vars

----------------------------------------------------------------------------
(* A language pack's use of the line grammar on one view:                   *)
(* split_line, CodeLine::reconstruct with the printed result, and split_line *)
(* again when the tool is run on its own output                             *)

InitLine ==
    /\ pc = "line"
    /\ lgLine \in StringsUpTo(LineAlphabet, MaxLineLen)
    /\ lgDetector \in Detectors
    /\ lgResult \in StringsUpTo(ResultAlphabet, MaxResultLen)
    /\ lgParsed = CodeLine_Code(<<>>)
    /\ lgRebuilt = <<>>
    /\ lgReparsed = CodeLine_Code(<<>>)
    /\ input = <<>>
    /\ markdown = FALSE
    /\ doc = <<>>
    /\ calls = 0
    /\ view = <<>>
    /\ updates = <<>>
    /\ fault = FALSE
    /\ output = <<>>
    /\ EvIdle
    /\ SelIdle

\* evaluate_in_place: `split_line(s, MARKER, COMMENT, extract_assigned_var)`
SplitLine ==
    /\ pc = "line"
    /\ lgParsed' = split_line(lgLine, MARKER, COMMENT, lgDetector)
    /\ pc' = "split"
    /\ UNCHANGED <<lgLine, lgDetector, lgResult, lgRebuilt, lgReparsed, docVars, evVars, selVars>>

\* evaluate_in_place: `lines[idx].reconstruct(&value)`
RebuildLine ==
    /\ pc = "split"
    /\ lgRebuilt' = CodeLine_reconstruct(lgParsed, lgResult)
    /\ pc' = "rebuilt"
    /\ UNCHANGED <<lgLine, lgDetector, lgResult, lgParsed, lgReparsed, docVars, evVars, selVars>>

\* the next run's split_line on the line the tool wrote
ResplitLine ==
    /\ pc = "rebuilt"
    /\ lgReparsed' = split_line(lgRebuilt, MARKER, COMMENT, lgDetector)
    /\ pc' = "resplit"
    /\ UNCHANGED <<lgLine, lgDetector, lgResult, lgParsed, lgRebuilt, docVars, evVars, selVars>>

NextLine == SplitLine \/ RebuildLine \/ ResplitLine
SpecLine == InitLine /\ [][NextLine]_vars

----------------------------------------------------------------------------
(* main.rs: the selection of the language pack *)

\* most lines of an input text whose fences are searched for a language tag
MaxTagLines == 2

UpperCase == <<"A", "B", "C", "D", "E", "F", "G", "H", "I", "J", "K", "L", "M",
               "N", "O", "P", "Q", "R", "S", "T", "U", "V", "W", "X", "Y", "Z">>
LowerCase == <<"a", "b", "c", "d", "e", "f", "g", "h", "i", "j", "k", "l", "m",
               "n", "o", "p", "q", "r", "s", "t", "u", "v", "w", "x", "y", "z">>

\* char::to_ascii_lowercase
char_to_ascii_lowercase(ch) ==
    IF \E k \in 1..26 : UpperCase[k] = ch
    THEN LowerCase[CHOOSE k \in 1..26 : UpperCase[k] = ch]
    ELSE ch

\* str::to_ascii_lowercase
to_ascii_lowercase(s) == [k \in 1..Len(s) |-> char_to_ascii_lowercase(s[k])]

\* char::is_ascii_alphanumeric
is_ascii_alphanumeric(ch) ==
    \/ \E k \in 1..26 : UpperCase[k] = ch \/ LowerCase[k] = ch
    \/ \E d \in 1..10 : Digits[d] = ch

\* Path::file_name of a path that ends in a file's name: what follows the
\* last separator
file_name(p) ==
    LET seps == {k \in 1..Len(p) : p[k] = "/"}
    IN IF seps = {} THEN p
       ELSE SubSeq(p, (CHOOSE k \in seps : \A j \in seps : j <= k) + 1, Len(p))

\* Path::extension: what follows the last dot of the file name, if that dot
\* is not the first character of the file name
extension(p) ==
    LET f == file_name(p)
        dots == {k \in 1..Len(f) : f[k] = "."}
        last == CHOOSE k \in dots : \A j \in dots : j <= k
    IN IF dots = {} \/ last = 1 THEN None
       ELSE Some(SubSeq(f, last + 1, Len(f)))

\* guess_language_from_path
guess_language_from_path(p) ==
    LET e == extension(p)
        ext == to_ascii_lowercase(e.val)
    IN IF ~e.some THEN None
       ELSE IF ext \in {<<"p", "y">>, <<"p", "y", "w">>} THEN Some(<<"p", "y", "t", "h", "o", "n">>)
       ELSE IF ext \in {<<"n", "b", "t">>, <<"n", "b">>} THEN Some(<<"n", "u", "m", "b", "a", "t">>)
       ELSE IF ext \in {<<"f", "e", "n", "d">>, <<"f", "d">>} THEN Some(<<"f", "e", "n", "d">>)
       ELSE None

\* matches_ignore_case
matches_ignore_case(candidate, choices) ==
    to_ascii_lowercase(candidate) \in choices

\* is_markdown_path
is_markdown_path(p) ==
    LET e == extension(p)
    IN e.some /\ matches_ignore_case(e.val, {<<"m", "d">>, <<"m", "a", "r", "k", "d", "o", "w", "n">>, <<"m", "d", "o", "w", "n">>, <<"m", "k", "d">>})

RECURSIVE take_while_ident(_)
\* detect_markdown_language: the leading characters of the text after the
\* fence that are alphanumeric, '_' or '-'
take_while_ident(s) ==
    IF s # <<>> /\ (is_ascii_alphanumeric(Head(s)) \/ Head(s) \in {"_", "-"})
    THEN <<Head(s)>> \o take_while_ident(Tail(s))
    ELSE <<>>

RECURSIVE detect_in_lines(_)
\* detect_markdown_language: the loop over contents.lines()
detect_in_lines(ls) ==
    IF ls = <<>> THEN None
    ELSE LET rest == strip_prefix(trim_start(Head(ls)), FENCE)
             ident == to_ascii_lowercase(take_while_ident(rest.val))
         IN IF ~rest.some \/ ident = <<>> THEN detect_in_lines(Tail(ls))
            ELSE IF ident = <<"p", "y", "t", "h", "o", "n">> THEN Some(<<"p", "y", "t", "h", "o", "n">>)
            ELSE IF ident = <<"p", "y">> THEN Some(<<"p", "y", "t", "h", "o", "n">>)
            ELSE IF ident = <<"n", "u", "m", "b", "a", "t">> THEN Some(<<"n", "u", "m", "b", "a", "t">>)
            ELSE IF ident = <<"f", "e", "n", "d">> THEN Some(<<"f", "e", "n", "d">>)
            ELSE detect_in_lines(Tail(ls))

\* detect_markdown_language
detect_markdown_language(contents) == detect_in_lines(lines(contents))

\* main: `markdown_guess`
markdown_guess(md, contents) ==
    IF md THEN detect_markdown_language(contents) ELSE None

\* main: `language_name`: the forced language, else the guess from the path,
\* else the guess from the fences, else "python"
select_language_name(forced, p, guess) ==
    LET from_path == IF p.some THEN guess_language_from_path(p.val) ELSE None
    IN IF forced.some THEN forced.val
       ELSE IF from_path.some THEN from_path.val
       ELSE IF guess.some THEN guess.val
       ELSE <<"p", "y", "t", "h", "o", "n">>

\* get_language_spec: the pack of that name, if there is one
get_language_spec(lang_str) ==
    IF lang_str = <<"p", "y", "t", "h", "o", "n">> THEN [some |-> TRUE, pack |-> "python"]
    ELSE IF lang_str = <<"n", "u", "m", "b", "a", "t">> THEN [some |-> TRUE, pack |-> "numbat"]
    ELSE [some |-> FALSE, pack |-> "none"]

\* the file names given as --input: a stem, then nothing or a dot and an
\* extension; the empty string names no file
PathStems == {<<"a">>, <<>>, <<"d", ".", "x", "/", "a">>}
PathExtensions == 
    {<<"p", "y">>,
     <<"p", "y", "w">>,
     <<"n", "b", "t">>,
     <<"n", "b">>,
     <<"f", "e", "n", "d">>,
     <<"f", "d">>,
     <<"m", "d">>,
     <<"m", "a", "r", "k", "d", "o", "w", "n">>,
     <<"m", "d", "o", "w", "n">>,
     <<"m", "k", "d">>,
     <<"t", "x", "t">>,
     <<"P", "Y">>,
     <<"M", "d">>}
SelPaths ==
    {stem \o suffix : stem \in PathStems,
                      suffix \in {<<>>} \cup {<<".">> \o e : e \in PathExtensions}}
        \ {<<>>}

\* the names given as --language
ForcedNames == {<<"p", "y", "t", "h", "o", "n">>, <<"n", "u", "m", "b", "a", "t">>, <<"r", "u", "b", "y">>}

\* the lines of the input texts: a fence with a language tag, a fence with
\* none, a line without a fence
TagLines ==
    {indent \o FENCE \o tag : indent \in {<<>>, <<" ">>}, tag \in 
        {<<>>,
         <<"p", "y">>,
         <<"p", "y", "t", "h", "o", "n">>,
         <<"n", "u", "m", "b", "a", "t">>,
         <<"f", "e", "n", "d">>,
         <<"r", "u", "s", "t">>,
         <<"P", "y">>,
         <<"p", "y", "3">>,
         <<"f", "e", "n", "d", " ", "a">>}}
        \cup {<<"a">>, <<Backtick, Backtick, "p", "y">>}
SelTexts == {join(ls, <<LF>>) : ls \in StringsUpTo(TagLines, MaxTagLines)}

\* the state once the arguments are parsed: nothing has been read yet
InitSelect ==
    /\ pc = "args"
    /\ input = <<>>
    /\ markdown \in BOOLEAN
    /\ path \in {None} \cup {Some(p) : p \in SelPaths}
    /\ language \in {None} \cup {Some(n) : n \in ForcedNames}
    /\ language_name = <<>>
    /\ doc = <<>>
    /\ calls = 0
    /\ view = <<>>
    /\ updates = <<>>
    /\ fault = FALSE
    /\ output = <<>>
    /\ LgIdle
    /\ EvIdle

\* main: a Markdown path sets args.markdown, then the input is read from the
\* file or from stdin; when the read fails (no such file, a directory, bytes
\* that are not UTF-8) main returns the Err of `?` and selects nothing
ReadInput ==
    /\ pc = "args"
    /\ markdown' = (markdown \/ (path.some /\ is_markdown_path(path.val)))
    /\ \/ /\ input' \in SelTexts
          /\ pc' = "read"
       \/ /\ input' = input
          /\ pc' = "read_failed"
    /\ UNCHANGED <<doc, calls, view, updates, fault, output, lgVars, evVars,
                   selVars>>

\* main: from the input text to `language_name`
SelectLanguage ==
    /\ pc = "read"
    /\ language_name' =
           select_language_name(language, path, markdown_guess(markdown, input))
    /\ pc' = "selected"
    /\ UNCHANGED <<input, markdown, doc, calls, view, updates, fault, output,
                   lgVars, evVars, path, language>>

\* main: `get_language_spec(&language_name).unwrap_or_else(|| panic!(..))`
ResolveLanguage ==
    /\ pc = "selected"
    /\ lang' = get_language_spec(language_name).pack
    /\ pc' = IF get_language_spec(language_name).some THEN "resolved" ELSE "aborted"
    /\ UNCHANGED <<docVars, lgVars, parsed, script, exit, stdout, selVars>>

NextSelect == ReadInput \/ SelectLanguage \/ ResolveLanguage
SpecSelect == InitSelect /\ [][NextSelect]_vars

----------------------------------------------------------------------------
(* Vocabulary of the properties *)

\* the document evaluate_with was called on
DocBefore == parse(markdown, input)

\* all blocks of a document: lines in order, blocks in storage order
BlocksOf(d) == Concat([i \in 1..Len(d) |-> d[i].blocks])

IsCode(b) == b.kind = "Code"
IsText(b) == b.kind = "Text"

\* the Code blocks of a document in traversal order
CodeBlocksOf(d) == SelectSeq(BlocksOf(d), IsCode)

\* the ids an update list names
UpdatedIds(ups) == {ups[j].id : j \in 1..Len(ups)}

\* the lines a parser iterates over: the text split at "\n", without the
\* terminators
InputLines(md, text) ==
    IF md
    THEN LET pieces == split_inclusive(text, LF)
         IN [i \in 1..Len(pieces) |-> PopNewline(pieces[i])]
    ELSE lines(text)

\* number of backticks of a line
Backticks(l) == Cardinality({i \in 1..Len(l) : l[i] = Backtick})

\* number of fence lines before line i
FencesBefore(ls, i) == Cardinality({j \in 1..(i - 1) : is_fence(ls[j])})

Odd(n) == n % 2 = 1

\* the line has exactly one span, of that kind, holding the whole text
SingleSpan(l, kind, content) ==
    /\ Len(l.blocks) = 1
    /\ l.blocks[1].kind = kind
    /\ l.blocks[1].content = content

\* the line, after its leading whitespace, starts with three backticks
IsFenceLine(l) ==
    \E k \in 1..Len(l) :
        /\ \A j \in 1..(k - 1) : is_whitespace(l[j])
        /\ k + 2 <= Len(l)
        /\ \A j \in k..(k + 2) : l[j] = Backtick

RECURSIVE FlagAfter(_, _)
\* in_code_block of MarkdownParser::parse after the first i lines
FlagAfter(ls, i) ==
    IF i = 0 THEN FALSE
    ELSE parse_line(i, ls[i], FlagAfter(ls, i - 1)).in_code_block

\* position of the n-th backtick of a line
NthBacktick(l, n) ==
    CHOOSE p \in 1..Len(l) :
        /\ l[p] = Backtick
        /\ Cardinality({q \in 1..p : l[q] = Backtick}) = n

\* the Code spans of a line, in storage order
CodeSpans(l) == SelectSeq(l.blocks, IsCode)

\* the Text spans of a line, in storage order
TextSpans(l) == SelectSeq(l.blocks, IsText)

\* number of backticks held by the Text spans of a line
TextBackticks(l) ==
    Backticks(Concat([j \in 1..Len(TextSpans(l)) |-> TextSpans(l)[j].content]))

\* the positions of a line where the word w starts
StartsOf(s, w) ==
    {p \in 1..(Len(s) - Len(w) + 1) : SubSeq(s, p, p + Len(w) - 1) = w}

\* the least element of a non-empty set of positions
Least(S) == CHOOSE p \in S : \A q \in S : p <= q

\* the text of a line after its first marker
AfterMarker(text, marker) ==
    LET t == trim(text)
    IN SubSeq(t, Least(StartsOf(t, marker)) + Len(marker), Len(t))

\* the parts of a line that holds the marker, as the line grammar states them
ExpressionOf(text, marker) ==
    LET t == trim(text)
    IN trim(SubSeq(t, 1, Least(StartsOf(t, marker)) - 1))

PriorResultOf(text, marker, comment) ==
    LET a == AfterMarker(text, marker)
        r == IF StartsOf(a, comment) = {} THEN trim(a)
             ELSE trim(SubSeq(a, 1, Least(StartsOf(a, comment)) - 1))
    IN IF r = <<>> THEN None ELSE Some(r)

CommentOf(text, marker, comment) ==
    LET a == AfterMarker(text, marker)
    IN IF StartsOf(a, comment) = {} THEN None
       ELSE Some(trim(SubSeq(a, Least(StartsOf(a, comment)), Len(a))))

\* the interpreter of a pack was started and did not deliver a result: it
\* could not be started, it ended with a non-zero status, or no line it
\* printed starts with the result prefix
InterpreterFailed ==
    \/ exit \in {"spawn_failed", "nonzero"}
    \/ /\ exit = "ok"
       /\ \A k \in 1..Len(lines(stdout)) :
             ~starts_with(lines(stdout)[k], RESULT_PREFIX)

\* the contents of the Code blocks of a document, in traversal order
CodeContents(d) ==
    [j \in 1..Len(CodeBlocksOf(d)) |-> CodeBlocksOf(d)[j].content]

RECURSIVE SplitAt(_, _)
\* the pieces of a text between the occurrences of a character
SplitAt(s, ch) ==
    IF \E i \in 1..Len(s) : s[i] = ch
    THEN LET i == Least({k \in 1..Len(s) : s[k] = ch})
         IN <<SubSeq(s, 1, i - 1)>> \o SplitAt(SubSeq(s, i + 1, Len(s)), ch)
    ELSE <<s>>

\* the statements a pack hands to its interpreter, in order: the lines of
\* the Python script, the elements of the Numbat expression list
StatementsOf(pack, s) == IF pack = "python" THEN SplitAt(s, LF) ELSE s

\* the statement is a result-marker print carrying the index i
IsPrintFor(pack, stmt, i) ==
    IF pack = "python"
    THEN starts_with(stmt, PythonPrintOpen \o to_string(i) \o <<"'">>)
    ELSE starts_with(stmt, NumbatPrintOpen \o to_string(i) \o <<" ">>)

\* the non-decreasing maps from m statements to n views
OwnerMaps(m, n) ==
    {own \in [1..m -> 1..n] :
        \A k \in 1..m : \A k2 \in k..m : own[k] <= own[k2]}

\* the contents of the spans of a line in storage order, concatenated
StorageOrderText(l) == Concat([k \in 1..Len(l.blocks) |-> l.blocks[k].content])

\* range.start never decreases along the storage order of a line
StartsNonDecreasing(l) ==
    \A k \in 1..Len(l.blocks) : \A k2 \in k..Len(l.blocks) :
        l.blocks[k].range[1] <= l.blocks[k2].range[1]

\* the positions of an update list that name the id
UpdatesFor(ups, id) == {j \in 1..Len(ups) : ups[j].id = id}

\* the greatest element of a non-empty set of positions
Greatest(S) == CHOOSE p \in S : \A q \in S : q <= p

----------------------------------------------------------------------------
(* Properties *)

\* C1 (as claimed): round-trip law.  For every input text without the
\* evaluation marker, parsing with either parser and reconstructing with no
\* evaluation applied returns the input text, character for character.
C1_RoundTripLaw ==
    (pc = "done" /\ ~contains(input, MARKER)) => output = input

\* C2: partial update semantics of evaluate_with.  After the call every Code
\* span whose BlockId appears in the updates holds a content supplied for that
\* id, and every Code span whose BlockId does not appear holds its content
\* from before the call.
C2_PartialUpdate ==
    pc = "evaluated" =>
        LET before == CodeBlocksOf(DocBefore)
            after == CodeBlocksOf(doc)
        IN /\ Len(after) = Len(before)
           /\ \A k \in 1..Len(before) :
                 IF (k - 1) \in UpdatedIds(updates)
                 THEN \E j \in 1..Len(updates) :
                          /\ updates[j].id = k - 1
                          /\ after[k].content = updates[j].content
                 ELSE after[k].content = before[k].content

\* C2 witness: a document with two Code spans, an update for id 1 only; span 0
\* keeps its content and span 1 holds the update.
C2_Witness ==
    /\ pc = "evaluated"
    /\ Len(view) = 2
    /\ updates = <<CodeBlockUpdate(1, <<"x">>)>>
    /\ CodeBlocksOf(doc)[1].content = <<"a">>
    /\ CodeBlocksOf(doc)[2].content = <<"x">>

\* C3: frame of evaluate_with.  The call leaves unchanged the number and order
\* of lines, each line's number, the number, order, kind and range of every
\* span, and the content of every Text span.
C3_Frame ==
    pc = "evaluated" =>
        /\ Len(doc) = Len(DocBefore)
        /\ \A i \in 1..Len(doc) :
              /\ doc[i].number = DocBefore[i].number
              /\ Len(doc[i].blocks) = Len(DocBefore[i].blocks)
              /\ \A j \in 1..Len(doc[i].blocks) :
                    /\ doc[i].blocks[j].kind = DocBefore[i].blocks[j].kind
                    /\ doc[i].blocks[j].range = DocBefore[i].blocks[j].range
                    /\ IsText(doc[i].blocks[j]) =>
                          doc[i].blocks[j].content = DocBefore[i].blocks[j].content

\* C3 witness: a document of two lines or more with a Text span and a Code
\* span, whose Code span received a longer content.
C3_Witness ==
    /\ pc = "evaluated"
    /\ Len(doc) >= 2
    /\ \E b \in {BlocksOf(doc)[k] : k \in 1..Len(BlocksOf(doc))} : IsText(b)
    /\ \E k \in 1..Len(CodeBlocksOf(doc)) :
          /\ CodeBlocksOf(doc)[k].content = <<"y", "y">>
          /\ CodeBlocksOf(DocBefore)[k].content = <<"a">>

\* C4: address stability.  When the evaluator is called on a document with
\* N >= 1 Code spans it receives exactly N views, the k-th has id k (from 0)
\* and the content of the k-th Code span in traversal order.
C4_AddressStability ==
    (pc = "evaluated" /\ calls >= 1) =>
        LET before == CodeBlocksOf(DocBefore)
        IN /\ Len(view) = Len(before)
           /\ \A k \in 1..Len(view) :
                 /\ view[k].id = k - 1
                 /\ view[k].content = before[k].content

\* C4 witness: the evaluator received three views with different contents.
C4_Witness ==
    /\ pc = "evaluated"
    /\ calls = 1
    /\ Len(view) = 3
    /\ view[1].content # view[3].content
    /\ view[3].id = 2

\* C5: skip-on-empty.  evaluate_with never invokes the evaluator on a document
\* without Code spans, and invokes it exactly once otherwise.
C5_SkipOnEmpty ==
    /\ pc \in {"start", "parsed"} => calls = 0
    /\ pc = "evaluated" =>
          calls = (IF CodeBlocksOf(DocBefore) = <<>> THEN 0 ELSE 1)

\* C5 witness: evaluate_with returned on a document that has lines and Text
\* spans but no Code span, and the evaluator was not invoked.
C5_Witness ==
    /\ pc = "evaluated"
    /\ BlocksOf(doc) # <<>>
    /\ CodeBlocksOf(doc) = <<>>
    /\ calls = 0

\* C6: no-op evaluation.  If the evaluator returns an empty update list,
\* reconstruct after evaluate_with equals reconstruct before it.
C6_NoOpEvaluation ==
    (pc = "evaluated" /\ updates = <<>>) =>
        Document_reconstruct(doc) = Document_reconstruct(DocBefore)

\* C6 witness: the evaluator was invoked on two views, one of them not empty,
\* and returned no update.
C6_Witness ==
    /\ pc = "evaluated"
    /\ calls = 1
    /\ updates = <<>>
    /\ Len(view) = 2
    /\ view[2].content = <<"a">>

\* C7 (as claimed): line grammar inverse law.  For every line containing the
\* marker, every detector and every non-empty result R, split_line of
\* reconstruct(split_line(line), R) is an Eval or EvalAssignment whose prior
\* result is Some(R).
C7_InverseLaw ==
    (pc = "resplit" /\ contains(lgLine, MARKER) /\ lgResult # <<>>) =>
        /\ lgReparsed.variant \in {"Eval", "EvalAssignment"}
        /\ lgReparsed.result = Some(lgResult)

\* C8 (as claimed): line tiling.  For every line a parser produces, the
\* contents of its spans, stably sorted by range.start, concatenate to the
\* text of the input line.
C8_LineTiling ==
    pc = "parsed" =>
        /\ Len(doc) = Len(InputLines(markdown, input))
        /\ \A i \in 1..Len(doc) :
              reconstruct_line(doc[i]) = InputLines(markdown, input)[i]

\* C9: unterminated inline code.  A line scanned outside a fenced block that
\* is not a fence line and has an odd number of backticks yields exactly one
\* span, a Text span holding the whole line.
C9_UnterminatedInline ==
    (pc = "parsed" /\ markdown) =>
        LET ls == InputLines(TRUE, input)
        IN \A i \in 1..Len(ls) :
              (/\ ~is_fence(ls[i])
               /\ ~Odd(FencesBefore(ls, i))
               /\ Odd(Backticks(ls[i])))
              => SingleSpan(doc[i], "Text", ls[i])

\* C9 witness: a line with three backticks outside a fenced block whose first
\* pair is properly closed around a character.
C9_Witness ==
    /\ pc = "parsed"
    /\ markdown
    /\ \E i \in 1..Len(doc) :
          LET l == InputLines(TRUE, input)[i]
          IN /\ ~Odd(FencesBefore(InputLines(TRUE, input), i))
             /\ Backticks(l) = 3
             /\ Len(l) >= 4
             /\ l[1] = Backtick /\ l[2] # Backtick /\ l[3] = Backtick
             /\ SingleSpan(doc[i], "Text", l)

\* C10: fence state across lines.  A non-fence line is emitted as a single
\* Code span holding the whole line iff an odd number of fence lines precede
\* it.
C10_FenceState ==
    (pc = "parsed" /\ markdown) =>
        LET ls == InputLines(TRUE, input)
        IN \A i \in 1..Len(ls) :
              ~is_fence(ls[i]) =>
                  (SingleSpan(doc[i], "Code", ls[i]) <=> Odd(FencesBefore(ls, i)))

\* C10 witness: an opening fence that is never closed, followed by an empty
\* line and by a line holding a backtick, both emitted as single Code spans.
C10_Witness ==
    /\ pc = "parsed"
    /\ markdown
    /\ LET ls == InputLines(TRUE, input)
       IN /\ Len(ls) = 3
          /\ is_fence(ls[1])
          /\ ls[2] = <<>>
          /\ ls[3] = <<Backtick>>
          /\ SingleSpan(doc[2], "Code", <<>>)
          /\ SingleSpan(doc[3], "Code", <<Backtick>>)

\* C10 second witness: a line after a closed block (two fence lines before it)
\* is scanned inline again.
C10_ClosedWitness ==
    /\ pc = "parsed"
    /\ markdown
    /\ LET ls == InputLines(TRUE, input)
       IN /\ Len(ls) = 3
          /\ is_fence(ls[1]) /\ is_fence(ls[2])
          /\ SingleSpan(doc[3], "Text", <<"a">>)


\* C11: fence lines are never evaluable.  Every line whose text, after its
\* leading whitespace, starts with three backticks is emitted as exactly one
\* Text span holding the whole line, whether it opens or closes a block, and
\* the in-fence flag after the line is the negation of the flag before it.
C11_FenceLines ==
    (pc = "parsed" /\ markdown) =>
        LET ls == InputLines(TRUE, input)
        IN \A i \in 1..Len(ls) :
              IsFenceLine(ls[i]) =>
                  /\ SingleSpan(doc[i], "Text", ls[i])
                  /\ FlagAfter(ls, i) = ~FlagAfter(ls, i - 1)

\* C11 witness: an opening fence with a language tag and a closing fence
\* with leading whitespace, one Text span each, the flag back to false.
C11_Witness ==
    /\ pc = "parsed"
    /\ markdown
    /\ LET ls == InputLines(TRUE, input)
       IN /\ Len(ls) = 2
          /\ ls[1] = FENCE \o <<"a">>
          /\ ls[2] = <<CR>> \o FENCE
          /\ SingleSpan(doc[1], "Text", ls[1])
          /\ SingleSpan(doc[2], "Text", ls[2])
          /\ FlagAfter(ls, 1)
          /\ ~FlagAfter(ls, 2)

\* C11 second witness: a fence line with an inline backtick after the fence
\* token is still one Text span.
C11_InlineWitness ==
    /\ pc = "parsed"
    /\ markdown
    /\ LET ls == InputLines(TRUE, input)
       IN /\ Len(ls) = 1
          /\ ls[1] = FENCE \o <<"a", Backtick>>
          /\ SingleSpan(doc[1], "Text", ls[1])

\* C12: inline code scanning.  A non-fence line scanned outside a fenced
\* block that holds 2k backticks yields exactly k Code spans, the n-th holding
\* the characters strictly between the (2n-1)-th and the 2n-th backtick; no
\* Code span holds a backtick, and all 2k backticks are in Text spans.
C12_InlineScanning ==
    (pc = "parsed" /\ markdown) =>
        LET ls == InputLines(TRUE, input)
        IN \A i \in 1..Len(ls) :
              (/\ ~IsFenceLine(ls[i])
               /\ ~Odd(FencesBefore(ls, i))
               /\ ~Odd(Backticks(ls[i])))
              => LET k == Backticks(ls[i]) \div 2
                     codes == CodeSpans(doc[i])
                 IN /\ Len(codes) = k
                    /\ \A n \in 1..k :
                          codes[n].content =
                              SubSeq(ls[i], NthBacktick(ls[i], 2 * n - 1) + 1,
                                            NthBacktick(ls[i], 2 * n) - 1)
                    /\ \A n \in 1..Len(codes) : Backticks(codes[n].content) = 0
                    /\ TextBackticks(doc[i]) = 2 * k

\* C12 witness: a line with four backticks, its two Code spans holding one
\* character and nothing.
C12_Witness ==
    /\ pc = "parsed"
    /\ markdown
    /\ LET ls == InputLines(TRUE, input)
       IN /\ Len(ls) = 1
          /\ ls[1] = <<Backtick, "a", Backtick, Backtick, Backtick>>
          /\ Len(CodeSpans(doc[1])) = 2
          /\ CodeSpans(doc[1])[1].content = <<"a">>
          /\ CodeSpans(doc[1])[2].content = <<>>
          /\ TextBackticks(doc[1]) = 4

\* C13 (as claimed): every line of a Document produced by the Markdown
\* scanner has one or more spans, an empty line outside a fenced block
\* included.
C13_EveryLineHasSpan ==
    (pc = "parsed" /\ markdown) =>
        \A i \in 1..Len(doc) : Len(doc[i].blocks) >= 1

\* C13 (amended): a line of a Document produced by the Markdown scanner has
\* no span iff it is an empty line outside a fenced block; every other line
\* has one or more spans.
C13_NonEmptyLineHasSpan ==
    (pc = "parsed" /\ markdown) =>
        LET ls == InputLines(TRUE, input)
        IN \A i \in 1..Len(ls) :
              (Len(doc[i].blocks) = 0)
                  <=> (ls[i] = <<>> /\ ~Odd(FencesBefore(ls, i)))

\* C13 witness: an empty line before a fence has no span, an empty line after
\* the opening fence has one.
C13_Witness ==
    /\ pc = "parsed"
    /\ markdown
    /\ LET ls == InputLines(TRUE, input)
       IN /\ Len(ls) = 3
          /\ ls[1] = <<>> /\ ls[2] = FENCE /\ ls[3] = <<>>
          /\ doc[1].blocks = <<>>
          /\ Len(doc[3].blocks) = 1


\* C14: line grammar classification.  split_line returns Code holding the
\* trimmed text iff the trimmed text does not hold the marker; otherwise the
\* expression is the trimmed text before the first marker, the prior result
\* the trimmed text between the marker and the first comment prefix after it
\* (None when empty), the comment the trimmed text from that prefix to the end
\* (None without a prefix), and the variant is EvalAssignment with the
\* detector's name iff the detector names a variable for the expression,
\* else Eval.
C14_Classification ==
    (pc = "split") =>
        LET t == trim(lgLine)
        IN IF StartsOf(t, MARKER) = {}
           THEN lgParsed = CodeLine_Code(t)
           ELSE LET expr == ExpressionOf(lgLine, MARKER)
                    name == extract_assignment(lgDetector, expr)
                IN /\ lgParsed.code = expr
                   /\ lgParsed.marker = MARKER
                   /\ lgParsed.result = PriorResultOf(lgLine, MARKER, COMMENT)
                   /\ lgParsed.comment = CommentOf(lgLine, MARKER, COMMENT)
                   /\ lgParsed.variant =
                          IF name.some THEN "EvalAssignment" ELSE "Eval"
                   /\ lgParsed.var = IF name.some THEN name.val ELSE <<>>

\* C14 witness: an assignment before the marker is an EvalAssignment naming
\* its variable, without prior result or comment.
C14_Witness ==
    /\ pc = "split"
    /\ lgDetector = "python"
    /\ lgLine = <<"a", "=", "#", "=">>
    /\ lgParsed = CodeLine_EvalAssignment(<<"a">>, <<"a", "=">>, MARKER, None, None)

\* C14 second witness: marker, prior result and comment on one line with an
\* empty expression.
C14_CommentWitness ==
    /\ pc = "split"
    /\ lgLine = <<"#", "=", "a", "#">>
    /\ lgParsed = CodeLine_Eval(<<>>, MARKER, Some(<<"a">>), Some(<<"#">>))

\* C15: result line format.  For an Eval or EvalAssignment parsed line and a
\* new result R, CodeLine::reconstruct returns the expression, a space, the
\* marker, a space and R, followed by a space and the trimmed comment when
\* the line has one; the prior result is not part of the output.
C15_ResultLineFormat ==
    (pc = "rebuilt" /\ lgParsed.variant \in {"Eval", "EvalAssignment"}) =>
        LET head == ExpressionOf(lgLine, MARKER) \o <<" ">> \o MARKER
                        \o <<" ">> \o lgResult
            c == CommentOf(lgLine, MARKER, COMMENT)
        IN lgRebuilt = IF c.some THEN head \o <<" ">> \o c.val ELSE head

\* C15 witness: a line with a prior result and a comment is rebuilt around a
\* new two-character result.
C15_Witness ==
    /\ pc = "rebuilt"
    /\ lgLine = <<"#", "=", "a", "#">>
    /\ lgResult = <<"a", "a">>
    /\ lgRebuilt = <<" ", "#", "=", " ", "a", "a", " ", "#">>


\* C16 (as claimed): unmarked lines remain unchanged.  For each language pack
\* and whatever the interpreter prints, evaluate returns no update for a view
\* whose content does not hold the marker, and the code span keeps its
\* original text, leading and trailing whitespace included.
C16_UnmarkedUnchanged ==
    (pc = "evaluated" /\ lang \in Packs) =>
        \A j \in 1..Len(view) :
            ~contains(view[j].content, MARKER) =>
                /\ view[j].id \notin UpdatedIds(updates)
                /\ CodeContents(doc)[j] = view[j].content

\* C17 (as claimed): evaluator failure is soft.  For each language pack, when
\* the interpreter cannot be started, ends with a non-zero status or prints
\* no result line, evaluate returns an empty update list without aborting and
\* every code span retains its original content.
C17_SoftFailure ==
    (pc \in {"evaluated", "panicked"} /\ lang \in Packs /\ InterpreterFailed) =>
        /\ ~fault
        /\ updates = <<>>
        /\ CodeContents(doc) = contents_of(view)

\* C20: context replay order.  The statements of the Python script and of the
\* Numbat expression list can be attributed to the views by a non-decreasing
\* map, every statement being its view's expression or a result-marker print
\* with its view's index; every view with an expression that is not a plain
\* Eval has its expression among its statements; an EvalAssignment view has
\* its assignment before its print; and every Eval or EvalAssignment view
\* with a non-empty expression has exactly one print carrying its index in
\* the whole script.
C20_ContextReplayOrder ==
    (pc = "built" /\ lang \in {"python", "numbat"}) =>
        LET stmts == StatementsOf(lang, script)
            n == Len(view)
        IN /\ \E own \in OwnerMaps(Len(stmts), n) :
                /\ \A k \in 1..Len(stmts) :
                      \/ stmts[k] = parsed[own[k]].code
                      \/ IsPrintFor(lang, stmts[k], own[k] - 1)
                /\ \A i \in 1..n :
                      (parsed[i].variant # "Eval" /\ parsed[i].code # <<>>) =>
                          \E k \in 1..Len(stmts) :
                              own[k] = i /\ stmts[k] = parsed[i].code
                /\ \A i \in 1..n :
                      parsed[i].variant = "EvalAssignment" =>
                          \E k \in 1..Len(stmts) : \E k2 \in (k + 1)..Len(stmts) :
                              /\ own[k] = i /\ own[k2] = i
                              /\ stmts[k] = parsed[i].code
                              /\ IsPrintFor(lang, stmts[k2], i - 1)
           /\ \A i \in 1..n :
                 (parsed[i].variant \in {"Eval", "EvalAssignment"}
                  /\ parsed[i].code # <<>>) =>
                     Cardinality({k \in 1..Len(stmts) :
                                     IsPrintFor(lang, stmts[k], i - 1)}) = 1

\* C20 witness: a Python script of three statements for an assignment view
\* followed by an evaluated view.
C20_Witness ==
    /\ pc = "built"
    /\ lang = "python"
    /\ Len(view) = 2
    /\ parsed[1].variant = "EvalAssignment"
    /\ parsed[2].variant = "Eval" /\ parsed[2].code = <<"a">>
    /\ Len(StatementsOf(lang, script)) = 3
    /\ IsPrintFor(lang, StatementsOf(lang, script)[2], 0)
    /\ IsPrintFor(lang, StatementsOf(lang, script)[3], 1)

\* C20 second witness: a Numbat expression list of three expressions for an
\* unmarked view followed by an assignment view.
C20_NumbatWitness ==
    /\ pc = "built"
    /\ lang = "numbat"
    /\ Len(view) = 2
    /\ parsed[1].variant = "Code"
    /\ parsed[2].variant = "EvalAssignment"
    /\ script = <<<<"a">>, <<"l", "e", "t", " ", "a", "=", "a">>,
                  render_print(1, <<"a">>)>>


\* C19 (as claimed): in-place write-back on Markdown lines.  For every line
\* the Markdown scanner produced and any updates merged into its Code spans,
\* range.start is non-decreasing along the storage order of the line, and
\* Document::reconstruct emits the spans at their scan positions: the output
\* is the lines' contents concatenated in storage order, so new content of
\* an inline code span stands between the backticks that enclosed the old.
C19_InPlaceWriteBack ==
    (pc = "done" /\ markdown) =>
        /\ \A i \in 1..Len(doc) : StartsNonDecreasing(doc[i])
        /\ output = join([i \in 1..Len(doc) |-> StorageOrderText(doc[i])], <<LF>>)

\* C19, the second half alone: the output is the storage-order text.
C19_OutputInStorageOrder ==
    (pc = "done" /\ markdown) =>
        output = join([i \in 1..Len(doc) |-> StorageOrderText(doc[i])], <<LF>>)


\* C21: the merge is decided by the last update per id.  For any update list
\* the evaluator returns, evaluate_with ends without fault, the k-th Code span
\* (from 0) holds the content of the last update of the list whose id is k,
\* or its content from before the call when no update names k; updates whose
\* id is the number of Code spans or larger change nothing.
C21_LastUpdateWins ==
    (pc \in {"evaluated", "mismatched"} /\ calls >= 1) =>
        LET before == CodeBlocksOf(DocBefore)
            after == CodeBlocksOf(doc)
        IN /\ ~fault
           /\ pc = "evaluated"
           /\ Len(after) = Len(before)
           /\ \A k \in 1..Len(before) :
                 after[k].content =
                     IF UpdatesFor(updates, k - 1) = {}
                     THEN before[k].content
                     ELSE updates[Greatest(UpdatesFor(updates, k - 1))].content

\* C21 witness: two updates with different contents for the same id; the
\* span holds the second.
C21_Witness ==
    /\ pc = "evaluated"
    /\ Len(view) = 2
    /\ updates = <<CodeBlockUpdate(0, <<"x">>), CodeBlockUpdate(0, <<"y", "y">>)>>
    /\ CodeBlocksOf(doc)[1].content = <<"y", "y">>
    /\ CodeBlocksOf(doc)[2].content = view[2].content

\* C21 second witness: an update whose id addresses no span, next to one
\* that does; no fault, the addressed span updated, the other untouched.
C21_OutOfRangeWitness ==
    /\ pc = "evaluated"
    /\ ~fault
    /\ Len(view) = 2
    /\ updates = <<CodeBlockUpdate(2, <<"x">>), CodeBlockUpdate(1, <<"y", "y">>)>>
    /\ CodeBlocksOf(doc)[1].content = view[1].content
    /\ CodeBlocksOf(doc)[2].content = <<"y", "y">>


\* C22 (as claimed): re-evaluation is stable.  For every line L holding the
\* marker, every detector and every result R, with L1 the line
\* reconstruct(split_line(L), R), reconstruct(split_line(L1), R) equals L1.
C22_ReEvaluationStable ==
    (pc = "resplit" /\ contains(lgLine, MARKER)) =>
        CodeLine_reconstruct(lgReparsed, lgResult) = lgRebuilt

\* C22, restricted to results without the comment prefix.
C22_StableWithoutCommentPrefix ==
    (pc = "resplit" /\ contains(lgLine, MARKER) /\ ~contains(lgResult, COMMENT)) =>
        CodeLine_reconstruct(lgReparsed, lgResult) = lgRebuilt


----------------------------------------------------------------------------
(* C23: automatic language selection *)

\* the language was selected automatically: no --language was given
AutomaticSelection == ~language.some

\* C23: whenever main selects the language automatically (from the path's
\* extension, from a fence's language tag, or the default), get_language_spec
\* resolves the selected name, so the run never ends in the "Unknown
\* language" abort
C23_AutoSelectionResolves ==
    (AutomaticSelection /\ pc \in {"selected", "resolved", "aborted"}) =>
        /\ get_language_spec(language_name).some
        /\ pc # "aborted"

\* the same for the names other than "fend"
C23_ResolvesUnlessFend ==
    (AutomaticSelection /\ pc \in {"selected", "resolved", "aborted"}
        /\ language_name # <<"f", "e", "n", "d">>) =>
        /\ get_language_spec(language_name).some
        /\ pc # "aborted"

\* a fence's tag is what selected the language, and it resolved
C23_TagWitness ==
    /\ input # <<>>
    /\ AutomaticSelection
    /\ pc = "resolved"
    /\ lang = "numbat"
    /\ path.some
    /\ ~guess_language_from_path(path.val).some


----------------------------------------------------------------------------
(* C24: the two traversals of evaluate_with agree *)

\* C24: whatever the document and whatever the evaluator returns,
\* evaluate_with never hits its "mismatched number of code blocks" abort: the
\* second traversal meets exactly as many Code spans as the first one
\* extracted, in the same order, and every extracted content that no update
\* replaces is back in the span it was taken from
C24_NoMismatch ==
    /\ pc # "mismatched"
    /\ fault => pc = "panicked"
    /\ pc = "evaluated" =>
        LET ex == ExtractLines(DocBefore, 1, <<>>)
            m == MergeResult(ex.doc, ex.extracted, updates)
            after == CodeBlocksOf(doc)
        IN /\ ~evaluate_with(DocBefore, updates).fault
           /\ ~m.fault
           /\ m.it = Len(ex.extracted)
           /\ Len(after) = Len(ex.extracted)
           /\ \A k \in 1..Len(after) :
                 UpdatesFor(updates, k - 1) = {} =>
                     after[k].content = ex.extracted[k].content

\* two Code spans were extracted, the evaluator answered with an update that
\* addresses neither, and both spans hold their extracted content again
C24_Witness ==
    /\ pc = "evaluated"
    /\ calls = 1
    /\ Len(view) = 2
    /\ view[1].content # view[2].content
    /\ updates = <<CodeBlockUpdate(2, <<"x">>)>>
    /\ Len(CodeBlocksOf(doc)) = 2
    /\ \A k \in 1..2 : CodeBlocksOf(doc)[k].content = view[k].content

====
